---- MODULE Spec2Model ----
(***************************************************************************)
(* Order tracking store (src/src/order_tracker.py) and the order           *)
(* processing orchestrator (src/main.py) of the Tile Pro Depot e-mail      *)
(* client.                                                                 *)
(*                                                                         *)
(* The sent_orders table is a set of rows, the processing log a sequence   *)
(* of entries per order key.  Every OrderTracker method is one action (it  *)
(* runs one statement and commits under the tracker's lock).  Each         *)
(* orchestrator instance walks through process_emails with a program       *)
(* counter, so that two instances interleave between the duplicate check,  *)
(* the outbound send and the recording of the send.                        *)
(*                                                                         *)
(* The Laticrete branch adds the price list resolver                       *)
(* (src/src/price_list_reader.py), the PDF form filler                     *)
(* (src/src/pdf_filler.py) and the order processor                         *)
(* (src/src/laticrete_processor.py).  They are functions of their          *)
(* arguments and of the loaded price list; strings are sequences of        *)
(* characters, so that stripping, tokenizing and matching are computed.    *)
(* The admin panel's order service                                         *)
(* (src/admin_panel/backend/services/order_service.py) acts on the same    *)
(* tables as the tracker.                                                  *)
(***************************************************************************)
EXTENDS Integers, Sequences, FiniteSets, TLC

VARIABLES
    rows,       \* table sent_orders: a set of row records
    nextId,     \* AUTOINCREMENT counter of sent_orders.id
    log,        \* table order_processing_log, per order key
    now,        \* CURRENT_TIMESTAMP, a logical clock
    pc,         \* per orchestrator instance: position in process_emails
    nemails,    \* per instance: len(new_emails) of the running cycle
    cur,        \* per instance: email_data, the e-mail the loop is at
    idx,        \* per instance: loop position in new_emails (1-based)
    part,       \* per instance: 1 = first handler of the e-mail, 2 = Laticrete handler of a 'both' e-mail
    okey,       \* per instance: order key of the order being / last processed
    existing,   \* per instance: existing_order returned by the duplicate check
    outcome,    \* per instance: the logger branch the last processed order ended in
    cycles,     \* per instance: number of process_emails invocations started
    delivered,  \* per order key: number of outbound e-mails actually dispatched
    ret,        \* result of the last direct call of a store method
    calls,      \* number of direct store calls made so far
    catalog,    \* PriceListReader.price_data: its rows and the columns added since the load
    rq,         \* the find_product / find_best_match call made last (op "none": about to be made)
    lat,        \* the last LatricreteProcessor.process_order call: products and result
    pdf,        \* the last PDFOrderFormFiller.fill_order_form call: strategies and result
    ld,         \* a load_price_list call: its position and whether the last one raised
    lock,       \* OrderTracker._lock: the thread holding it, or Free
    th,         \* per thread calling the tracker: the method it is in and its position
    sr          \* the last _send_with_retry call: loop position, messages handed over, result

vars == <<rows, nextId, log, now, pc, nemails, cur, idx, part, okey, existing,
          outcome, cycles, delivered, ret, calls, catalog, rq, lat, pdf, ld,
          lock, th, sr>>

orchVars == <<pc, nemails, cur, idx, part, okey, existing, outcome, cycles>>

\* the components that are also run on their own
partVars == <<ld, lock, th, sr>>

\* the price catalog, the resolver and the Laticrete order processor
coreVars == <<catalog, rq, lat, pdf, partVars>>

\* the tracking store and the orchestrator
trackVars == <<rows, nextId, log, now, orchVars, delivered, ret, calls>>

----------------------------------------------------------------------------
(* Bounds *)

MaxOrder  == 1      \* vendor order numbers 1..MaxOrder
MaxEmails == 2      \* e-mails returned by one fetch, one instance running alone
MaxRace   == 1      \* e-mails returned by one fetch, instances running concurrently
MaxCycles == 1      \* process_emails invocations per instance
MaxTime   == 1      \* clock values 0..MaxTime
MaxCalls  == 3      \* direct calls of store methods (CLI, admin panel, tests)

Procs     == {"p1", "p2"}           \* concurrent orchestrator instances
OrderNums == 1..MaxOrder
Prefixes  == {"TW", "LAT"}
PTypes    == {"none", "tileware", "laticrete", "both"}
Snaps     == {"s1"}                 \* extracted order details (customer, products, total, content)
Statuses  == {"pending", "sent", "failed", "resolved"}

\* f"TW-{order_id}" / f"LAT-{order_id}"
OrderKey(prefix, n) == <<prefix, n>>

Keys == {OrderKey(x, n) : x \in Prefixes, n \in OrderNums}

Emails == [num : OrderNums, ptype : PTypes, snap : Snaps]

NoRow == [id |-> 0]
NoRet == [op |-> "none", key |-> <<"none", 0>>, ok |-> FALSE, fault |-> FALSE]
NoKey == <<"none", 0>>

\* self.cs_email / self.laticrete_cs_email
Recipient(k) == IF k[1] = "TW" THEN "cs" ELSE "laticrete_cs"

NoEmail == [num |-> 0, ptype |-> "none", snap |-> "null"]

----------------------------------------------------------------------------
(* The store: helpers *)

RowsOf(k) == {r \in rows : r.order_id = k}

\* the lookup restricted to rows created before the current second
SelectOrderOlder(k) ==
    IF {r \in RowsOf(k) : r.created_at < now} = {} THEN NoRow
    ELSE CHOOSE r \in RowsOf(k) : r.created_at < now

\* SELECT * FROM sent_orders WHERE order_id = ? ORDER BY created_at DESC LIMIT 1
SelectOrder(k) ==
    IF RowsOf(k) = {} THEN NoRow
    ELSE CHOOSE r \in RowsOf(k) :
            \A q \in RowsOf(k) : q.created_at < r.created_at
                                  \/ (q.created_at = r.created_at /\ q.id <= r.id)

\* INSERT INTO order_processing_log (order_id, action, details); the
\* exception of a failed insert is swallowed
LogAction(lg, k, action, details, logOk) ==
    IF logOk
    THEN [lg EXCEPT ![k] = Append(@, [action |-> action, details |-> details, timestamp |-> now])]
    ELSE lg

\* A row as INSERT builds it: id from AUTOINCREMENT, sent_at and created_at
\* DEFAULT CURRENT_TIMESTAMP
NewRow(k, status, sentTo, snap, err) ==
    [id |-> nextId, order_id |-> k, status |-> status, sent_to |-> sentTo,
     snap |-> snap, sent_at |-> now, created_at |-> now, error_message |-> err]

\* a plain INSERT into a table that lacks the UNIQUE constraint
InsertNoReplace(k, sentTo, snap) ==
    rows \cup {NewRow(k, "sent", sentTo, snap, "null")}

\* INSERT OR REPLACE: rows that conflict on the UNIQUE order_id are deleted,
\* then the new row is inserted; status takes its DEFAULT 'sent'
InsertOrReplace(k, sentTo, snap) ==
    (rows \ RowsOf(k)) \cup {NewRow(k, "sent", sentTo, snap, "null")}

----------------------------------------------------------------------------
(* The store: OrderTracker methods.  Each takes dbOk / logOk, whether the  *)
(* data statement and the nested _log_action insert succeed (a storage     *)
(* error raises sqlite3.Error), and yields the new tables and the result.  *)

has_order_been_sent(k, dbOk, logOk) ==
    IF ~dbOk
    THEN [is_sent |-> FALSE, order |-> NoRow, log |-> log]
    ELSE LET row == SelectOrder(k)
         IN  IF row # NoRow
             THEN [is_sent |-> TRUE, order |-> row,
                   log |-> LogAction(log, k, "duplicate_check", "Order already sent", logOk)]
             ELSE [is_sent |-> FALSE, order |-> NoRow,
                   log |-> LogAction(log, k, "duplicate_check", "Order not found", logOk)]

mark_order_as_sent(k, snap, recipient, dbOk, logOk) ==
    IF dbOk
    THEN [ok |-> TRUE, rows |-> InsertOrReplace(k, recipient, snap), nextId |-> nextId + 1,
          log |-> LogAction(log, k, "sent", recipient, logOk)]
    ELSE [ok |-> FALSE, rows |-> rows, nextId |-> nextId,
          log |-> LogAction(log, k, "error", "Failed to mark as sent", logOk)]

\* save_failed_order without its "order already exists" check, inserting
\* with INSERT OR REPLACE
save_failed_order_replace(k, err, snap, dbOk, logOk) ==
    IF ~dbOk
    THEN [ok |-> FALSE, rows |-> rows, nextId |-> nextId, log |-> log]
    ELSE [ok |-> TRUE,
          rows |-> (rows \ RowsOf(k)) \cup {NewRow(k, "failed", "pending", snap, err)},
          nextId |-> nextId + 1,
          log |-> LogAction(log, k, "failed_save", err, logOk)]

save_failed_order(k, err, snap, dbOk, logOk) ==
    IF ~dbOk \/ RowsOf(k) # {}
    THEN [ok |-> FALSE, rows |-> rows, nextId |-> nextId, log |-> log]
    ELSE [ok |-> TRUE, rows |-> rows \cup {NewRow(k, "failed", "pending", snap, err)},
          nextId |-> nextId + 1,
          log |-> LogAction(log, k, "failed_save", err, logOk)]

\* UPDATE sent_orders SET status = ? [, sent_to = ?, sent_at = CURRENT_TIMESTAMP]
\* [, error_message = ?] WHERE order_id = ?
UpdatedRow(r, status, sentTo, err) ==
    [r EXCEPT !.status = status,
              !.sent_to = IF sentTo # "null" THEN sentTo ELSE @,
              !.sent_at = IF sentTo # "null" THEN now ELSE @,
              !.error_message = IF err # "null" THEN err ELSE @]

update_order_status(k, status, sentTo, err, dbOk, logOk) ==
    IF ~dbOk \/ RowsOf(k) = {}
    THEN [ok |-> FALSE, rows |-> rows, log |-> log]
    ELSE [ok |-> TRUE,
          rows |-> (rows \ RowsOf(k)) \cup {UpdatedRow(r, status, sentTo, err) : r \in RowsOf(k)},
          log |-> LogAction(log, k, "status_update", status, logOk)]

\* DELETE ... WHERE created_at < cutoff; DELETE ... WHERE timestamp < cutoff
cleanup_old_records(days, dbOk) ==
    LET cutoff == now - days
        keepLog(e) == e.timestamp >= cutoff
    IN  IF ~dbOk
        THEN [deleted |-> 0, rows |-> rows, log |-> log]
        ELSE [deleted |-> Cardinality({r \in rows : r.created_at < cutoff})
                          + Cardinality({<<k, i>> \in Keys \X (1..5) :
                                           i <= Len(log[k]) /\ ~keepLog(log[k][i])}),
              rows |-> {r \in rows : r.created_at >= cutoff},
              log |-> [k \in Keys |-> SelectSeq(log[k], keepLog)]]

\* OrderService.delete_order: the administrative delete
delete_order(k, dbOk) ==
    IF ~dbOk
    THEN [ok |-> FALSE, rows |-> rows, log |-> log]
    ELSE [ok |-> TRUE, rows |-> rows \ RowsOf(k), log |-> [log EXCEPT ![k] = <<>>]]

\* SELECT * FROM order_processing_log WHERE order_id = ? ORDER BY timestamp DESC
RECURSIVE Reverse(_)
Reverse(s) == IF s = <<>> THEN <<>> ELSE Append(Reverse(Tail(s)), Head(s))

get_order_history(k) == Reverse(log[k])

\* SELECT * FROM sent_orders WHERE order_id = ? (no lock, no log entry)
get_order_details(k) == IF RowsOf(k) = {} THEN NoRow ELSE CHOOSE r \in RowsOf(k) : TRUE

\* order_details.get('tileware_products', []) of an extracted order: a
\* list of product names; the snapshot of a failed order has none
TilewareProducts(snap) == IF snap = "s1" THEN <<"A1", "B, 2">> ELSE <<>>

\* json.dumps of a list of strings: the text, one token per piece
RECURSIVE JsonItems(_)
JsonItems(list) ==
    IF list = <<>> THEN <<>>
    ELSE IF Len(list) = 1 THEN <<"\"", list[1], "\"">>
    ELSE <<"\"", list[1], "\"", ", ">> \o JsonItems(Tail(list))

json_dumps(list) == <<"[">> \o JsonItems(list) \o <<"]">>

\* json.loads of such a text: the strings between quotes
RECURSIVE JsonStrings(_, _)
JsonStrings(text, inString) ==
    IF text = <<>> THEN <<>>
    ELSE IF Head(text) = "\"" THEN JsonStrings(Tail(text), ~inString)
    ELSE IF inString THEN <<Head(text)>> \o JsonStrings(Tail(text), inString)
    ELSE JsonStrings(Tail(text), inString)

json_loads(text) == JsonStrings(text, FALSE)

\* the columns of a row that mark_order_as_sent filled from its arguments,
\* tileware_products as get_order_details decodes it
Decoded(row) ==
    [sent_to |-> row.sent_to, snap |-> row.snap, status |-> row.status,
     tileware_products |-> json_loads(json_dumps(TilewareProducts(row.snap)))]

\* the entries of two keys as one key's entries, in timestamp order
RECURSIVE MergeByTime(_, _)
MergeByTime(a, b) ==
    IF a = <<>> THEN b
    ELSE IF b = <<>> THEN a
    ELSE IF Head(a).timestamp <= Head(b).timestamp
         THEN <<Head(a)>> \o MergeByTime(Tail(a), b)
         ELSE <<Head(b)>> \o MergeByTime(a, Tail(b))

\* OrderService.update_order with updates = {order_id: newK, sent_to: sentTo}
\* ("null": the field is not in updates).  A taken order_id raises
\* ValueError and rolls back; otherwise the row is updated, an "updated"
\* entry is logged under the old key and, when the order_id changed, every
\* log entry of the old key is rewritten to the new key.
update_order(k, newK, sentTo, dbOk, logOk) ==
    IF ~dbOk \/ RowsOf(k) = {} \/ (newK # k /\ RowsOf(newK) # {}) \/ (newK = k /\ sentTo = "null")
    THEN [ok |-> FALSE, rows |-> rows, log |-> log]
    ELSE LET logged == LogAction(log, k, "updated", "order_updated", logOk)
         IN  [ok |-> TRUE,
              rows |-> (rows \ RowsOf(k))
                       \cup {[r EXCEPT !.order_id = newK,
                                       !.sent_to = IF sentTo # "null" THEN sentTo ELSE @]
                             : r \in RowsOf(k)},
              log |-> IF newK = k THEN logged
                      ELSE [logged EXCEPT ![newK] = MergeByTime(logged[newK], logged[k]),
                                          ![k] = <<>>]]

\* OrderService.resend_order and its two senders: the stored order is
\* looked up with get_order_details and sent again; sendOk is the result of
\* send_order_to_cs / process_order.  No row: "Order not found", False.
resend_order(k, sendOk, logOk) ==
    LET order == get_order_details(k)
    IN  IF order = NoRow
        THEN [ok |-> FALSE, dispatched |-> 0, log |-> log]
        ELSE IF sendOk
        THEN [ok |-> TRUE, dispatched |-> 1,
              log |-> LogAction(log, order.order_id, "resent", order.sent_to, logOk)]
        ELSE [ok |-> FALSE, dispatched |-> 0, log |-> log]

----------------------------------------------------------------------------
(* Strings.  A string is a sequence of one-character strings, so that      *)
(* stripping, case folding, substring search and tokenizing are computed.  *)

MaxNameLen == 3     \* length of the product names searched for
MaxSkuLen  == 3     \* length of the SKUs searched for
MaxCatalog == 2     \* rows of the loaded price list
MaxItems   == 2     \* line items of one Laticrete order
MaxThreads == 2     \* threads calling one OrderTracker
MaxLockCalls == 2   \* tracker calls made by one thread

Threads == 1..MaxThreads

Min(a, b) == IF a <= b THEN a ELSE b

\* the element of a one-element set: Only({F(x) : x \in {e}}) is F(e) with
\* e computed once
Only(S) == CHOOSE x \in S : TRUE

DigitChars == {"0", "2", "4", "5"}
UpperChars == {"A", "B", "C", "E", "G", "I", "L", "N", "R", "T", "X"}
LowerChars == {"a", "b", "c", "e", "g", "i", "l", "n", "r", "t", "x"}
SpaceChars == {" "}

\* str.upper() on one character
Upper(c) ==
    CASE c = "a" -> "A" [] c = "b" -> "B" [] c = "c" -> "C" [] c = "e" -> "E"
      [] c = "g" -> "G" [] c = "i" -> "I" [] c = "l" -> "L" [] c = "n" -> "N"
      [] c = "r" -> "R" [] c = "t" -> "T" [] c = "x" -> "X"
      [] OTHER -> c

RECURSIVE UpperStr(_)
UpperStr(s) == IF s = <<>> THEN <<>> ELSE <<Upper(Head(s))>> \o UpperStr(Tail(s))

\* str.strip()
RECURSIVE LStrip(_)
LStrip(s) == IF s # <<>> /\ Head(s) \in SpaceChars THEN LStrip(Tail(s)) ELSE s

RECURSIVE RStrip(_)
RStrip(s) ==
    IF s # <<>> /\ s[Len(s)] \in SpaceChars THEN RStrip(SubSeq(s, 1, Len(s) - 1)) ELSE s

Strip(s) == RStrip(LStrip(s))

\* sku.replace('#', '').strip()
CleanSku(sku) == Strip(SelectSeq(sku, LAMBDA c : c # "#"))

\* needle in hay; the empty string is in every string
Contains(hay, needle) ==
    \E i \in 0..(Len(hay) - Len(needle)) : SubSeq(hay, i + 1, i + Len(needle)) = needle

\* Series.str.contains(re.escape(needle), case=False)
ContainsNoCase(hay, needle) == Contains(UpperStr(hay), UpperStr(needle))

IsDigit(c) == c \in DigitChars
IsUpper(c) == c \in UpperChars

\* re.findall(r'\d+|[A-Z]+', s): the maximal runs of digits and of capital
\* letters, left to right; tok is the run being read
RECURSIVE Runs(_, _)
Runs(s, tok) ==
    LET flush == IF tok = <<>> THEN <<>> ELSE <<tok>>
    IN  IF s = <<>> THEN flush
        ELSE LET c == Head(s)
             IN  IF IsDigit(c) \/ IsUpper(c)
                 THEN IF tok = <<>> \/ (IsDigit(c) <=> IsDigit(tok[1]))
                      THEN Runs(Tail(s), Append(tok, c))
                      ELSE <<tok>> \o Runs(Tail(s), <<c>>)
                 ELSE flush \o Runs(Tail(s), <<>>)

Tokens(s) == Runs(s, <<>>)

\* str.split(): the maximal runs of non-whitespace characters
RECURSIVE Words(_, _)
Words(s, w) ==
    LET flush == IF w = <<>> THEN <<>> ELSE <<w>>
    IN  IF s = <<>> THEN flush
        ELSE IF Head(s) \in SpaceChars THEN flush \o Words(Tail(s), <<>>)
        ELSE Words(Tail(s), Append(w, Head(s)))

\* length of the longest prefix of s made of digits
RECURSIVE DigitRun(_)
DigitRun(s) == IF s # <<>> /\ IsDigit(Head(s)) THEN 1 + DigitRun(Tail(s)) ELSE 0

\* re.findall(r'\d+[xX]\d+', s)
RECURSIVE Dimensions(_)
Dimensions(s) ==
    IF s = <<>> THEN <<>>
    ELSE LET n    == DigitRun(s)
             rest == SubSeq(s, n + 1, Len(s))
             m    == IF Len(rest) >= 2 THEN DigitRun(Tail(rest)) ELSE 0
         IN  IF n > 0 /\ Len(rest) >= 2 /\ rest[1] \in {"x", "X"} /\ m > 0
             THEN <<SubSeq(s, 1, n + 1 + m)>> \o Dimensions(SubSeq(s, n + m + 2, Len(s)))
             ELSE Dimensions(Tail(s))

\* difflib.SequenceMatcher: the blocks a[i..i+k-1] = b[j..j+k-1]
Blocks(a, b) ==
    {t \in (1..Len(a)) \X (1..Len(b)) \X (1..Min(Len(a), Len(b))) :
        /\ t[1] + t[3] - 1 <= Len(a)
        /\ t[2] + t[3] - 1 <= Len(b)
        /\ SubSeq(a, t[1], t[1] + t[3] - 1) = SubSeq(b, t[2], t[2] + t[3] - 1)}

\* find_longest_match: the longest block, of those the earliest in a, of
\* those the earliest in b
LongestMatch(B) ==
    CHOOSE t \in B :
        \A u \in B :
            \/ u[3] < t[3]
            \/ u[3] = t[3] /\ t[1] < u[1]
            \/ u[3] = t[3] /\ t[1] = u[1] /\ t[2] <= u[2]

\* the number of matched characters: the longest block, then the same to
\* the left and to the right of it
RECURSIVE MatchSize(_, _)
MatchSize(a, b) ==
    Only({IF B = {} THEN 0
          ELSE Only({t[3] + MatchSize(SubSeq(a, 1, t[1] - 1), SubSeq(b, 1, t[2] - 1))
                          + MatchSize(SubSeq(a, t[1] + t[3], Len(a)),
                                      SubSeq(b, t[2] + t[3], Len(b))) :
                     t \in {LongestMatch(B)}}) :
          B \in {Blocks(a, b)}})

\* SequenceMatcher(None, a, b).ratio() = 2.0 * M / T (1.0 when T = 0), as
\* the fraction <<numerator, denominator>>
Ratio(a, b) ==
    IF Len(a) + Len(b) = 0 THEN <<1, 1>> ELSE <<2 * MatchSize(a, b), Len(a) + Len(b)>>

\* comparisons of fractions with positive denominators
FracLess(x, y) == x[1] * y[2] < y[1] * x[2]
FracAtLeast(x, y) == ~FracLess(x, y)

----------------------------------------------------------------------------
(* The price catalog and the product resolver (src/src/price_list_reader.py) *)

\* a cell pandas read as NaN
Missing == <<"NaN">>

\* str(cell) / astype(str)
Str(v) == IF v = Missing THEN <<"n", "a", "n">> ELSE v

\* fillna('')
FillNa(v) == IF v = Missing THEN <<>> ELSE v

\* rows of the price list: 'LATICRETE Item No', 'Brand', 'Description', 'Price'
CatalogPool ==
    {[sku |-> <<"5", "-", "G">>, brand |-> Missing, desc |-> <<"A", "A", "B">>, price |-> "p1"],
     [sku |-> <<"2", "5", "4", "-", "5", "0", "G">>, brand |-> <<"B">>,
      desc |-> <<"A", "B", "B", "A">>, price |-> "p2"],
     [sku |-> Missing, brand |-> Missing, desc |-> <<"A">>, price |-> "p3"]}

\* load_price_list: the rows that have a Description, in file order
Catalogs == UNION {[1..n -> CatalogPool] : n \in 0..MaxCatalog}

\* the Description of a filler row of the sheet
NoData == <<"N", "o", " ", "D", "a", "t", "a">>

\* rows of the sheet as pd.read_excel returns them: rows of the price list
\* and rows without a description
SheetPool ==
    CatalogPool
    \cup {[sku |-> Missing, brand |-> Missing, desc |-> Missing, price |-> "p0"],
          [sku |-> <<"5", "-", "G">>, brand |-> Missing, desc |-> NoData, price |-> "p0"]}

Sheets == UNION {[1..n -> SheetPool] : n \in 0..MaxCatalog}

\* the mask Description.notna() & (Description != 'No Data')
Described(row) == row.desc # Missing /\ row.desc # NoData

\* price_data[mask]
FilterRows(sheet) == SelectSeq(sheet, Described)

\* the columns the finders add to price_data
AddedColumns == {"_combined_name", "_search_text", "_fuzzy_text"}

NoHit(extra) == [hit |-> FALSE, row |-> 0, extra |-> extra]

FirstOf(S) == CHOOSE i \in S : \A j \in S : i <= j

\* Brand + ' ' + Description with NaN as ''
BrandDesc(row) == FillNa(row.brand) \o <<" ">> \o FillNa(row.desc)

\* the returned dict: sku, name (brand and description), price, and every
\* column outside the mapping, which are the added ones
extract_product_info(cat, i, extra) ==
    LET row   == cat.rows[i]
        brand == Strip(FillNa(row.brand))
        desc  == Strip(FillNa(row.desc))
    IN  [found |-> TRUE, row |-> i, sku |-> row.sku,
         name |-> IF brand # <<>> /\ desc # <<>> THEN brand \o <<" ">> \o desc
                  ELSE IF brand # <<>> THEN brand ELSE desc,
         price |-> row.price, columns |-> extra]

NotFound == [found |-> FALSE]

find_by_exact_sku(cat, sku) ==
    LET S == {i \in DOMAIN cat.rows : Strip(Str(cat.rows[i].sku)) = CleanSku(sku)}
    IN  IF S = {} THEN NoHit(cat.extra)
        ELSE [hit |-> TRUE, row |-> FirstOf(S), extra |-> cat.extra]

\* the number of input tokens found among the tokens of the row's SKU
MatchingParts(parts, rowParts) ==
    Cardinality({i \in 1..Len(parts) : \E j \in 1..Len(rowParts) : rowParts[j] = parts[i]})

\* a 70% threshold reached by every candidate that shares one token or more
find_by_partial_sku_any(cat, sku) ==
    LET parts == Tokens(UpperStr(CleanSku(sku)))
        S == {i \in DOMAIN cat.rows :
                MatchingParts(parts, Tokens(UpperStr(Strip(Str(cat.rows[i].sku))))) >= 1}
    IN  IF parts = <<>> \/ S = {} THEN NoHit(cat.extra)
        ELSE [hit |-> TRUE, row |-> FirstOf(S), extra |-> cat.extra]

find_by_partial_sku(cat, sku) ==
    LET parts == Tokens(UpperStr(CleanSku(sku)))
        S == {i \in DOMAIN cat.rows :
                10 * MatchingParts(parts, Tokens(UpperStr(Strip(Str(cat.rows[i].sku)))))
                   >= 7 * Len(parts)}
    IN  IF parts = <<>> \/ S = {} THEN NoHit(cat.extra)
        ELSE [hit |-> TRUE, row |-> FirstOf(S), extra |-> cat.extra]

\* the columns Description and Brand one by one, then the combined name,
\* whose column is added to price_data before it is searched
find_by_exact_name(cat, name) ==
    LET S1 == {i \in DOMAIN cat.rows : ContainsNoCase(Str(cat.rows[i].desc), name)}
        S2 == {i \in DOMAIN cat.rows : ContainsNoCase(Str(cat.rows[i].brand), name)}
        S3 == {i \in DOMAIN cat.rows : ContainsNoCase(Strip(BrandDesc(cat.rows[i])), name)}
        added == cat.extra \cup {"_combined_name"}
    IN  IF S1 # {} THEN [hit |-> TRUE, row |-> FirstOf(S1), extra |-> cat.extra]
        ELSE IF S2 # {} THEN [hit |-> TRUE, row |-> FirstOf(S2), extra |-> cat.extra]
        ELSE IF S3 # {} THEN [hit |-> TRUE, row |-> FirstOf(S3), extra |-> added]
        ELSE NoHit(added)

StopWords ==
    {<<"T", "H", "E">>, <<"A">>, <<"A", "N">>, <<"A", "N", "D">>, <<"O", "R">>,
     <<"W", "I", "T", "H">>, <<"F", "O", "R">>, <<"I", "N">>, <<"O", "N">>, <<"A", "T">>,
     <<"T", "O">>, <<"O", "F">>, <<"V", "A", "R", "I", "O", "U", "S">>,
     <<"S", "I", "Z", "E", "S">>, <<"S", "I", "Z", "E">>,
     <<"L", "A", "T", "I", "C", "R", "E", "T", "E">>, <<"X">>}

\* re.sub(r'[^A-Z0-9]', '', word)
AlnumOnly(w) == SelectSeq(w, LAMBDA c : IsDigit(c) \/ IsUpper(c))

RECURSIVE KeepKeywords(_)
KeepKeywords(ws) ==
    IF ws = <<>> THEN <<>>
    ELSE LET clean == AlnumOnly(Head(ws))
         IN  (IF clean # <<>> /\ clean \notin StopWords /\ Len(clean) > 2 THEN <<clean>> ELSE <<>>)
             \o KeepKeywords(Tail(ws))

\* _extract_keywords: the words of the upper-cased text, then the
\* dimensions of the text as written
extract_keywords(text) == KeepKeywords(Words(UpperStr(text), <<>>)) \o Dimensions(text)

\* the number of keywords that occur in the row's text
KeywordMatches(kws, text) == Cardinality({i \in 1..Len(kws) : Contains(text, kws[i])})

\* the first row of the best score among those that reach 60%
BestByKeywords(cat, kws) ==
    LET added == cat.extra \cup {"_search_text"}
        m(i)  == KeywordMatches(kws, UpperStr(BrandDesc(cat.rows[i])))
        S     == {i \in DOMAIN cat.rows :
                    /\ 10 * m(i) >= 6 * Len(kws)
                    /\ \A j \in DOMAIN cat.rows : m(j) <= m(i)}
    IN  IF kws = <<>> THEN NoHit(cat.extra)
        ELSE IF S = {} THEN NoHit(added)
        ELSE [hit |-> TRUE, row |-> FirstOf(S), extra |-> added]

find_by_keywords(cat, name) ==
    Only({BestByKeywords(cat, kws) : kws \in {extract_keywords(name)}})

\* the first row of the best similarity among those that reach 0.6
BestByRatio(cat, r) ==
    LET added == cat.extra \cup {"_fuzzy_text"}
        S     == {i \in DOMAIN cat.rows :
                    /\ FracAtLeast(r[i], <<6, 10>>)
                    /\ \A j \in DOMAIN cat.rows : ~FracLess(r[i], r[j])}
    IN  IF S = {} THEN NoHit(added)
        ELSE [hit |-> TRUE, row |-> FirstOf(S), extra |-> added]

find_by_fuzzy_match(cat, name) ==
    Only({BestByRatio(cat, r) :
          r \in {[i \in DOMAIN cat.rows |->
                    Ratio(UpperStr(name), UpperStr(BrandDesc(cat.rows[i])))]}})

\* the result of find_product: the returned dict, the branch that
\* returned it (its logger.info line) and the columns of price_data after
\* the call
Found(cat, row, extra, tier) ==
    [out |-> extract_product_info(cat, row, extra), tier |-> tier, extra |-> extra]

\* find_product trying the name before the SKU
find_product_name_first(cat, name, sku) ==
    LET n1 == find_by_exact_name(cat, name)
        s1 == find_by_exact_sku(cat, sku)
    IN  IF n1.hit THEN Found(cat, n1.row, n1.extra, "exact_name")
        ELSE IF sku # <<>> /\ s1.hit THEN Found(cat, s1.row, n1.extra, "exact_sku")
        ELSE [out |-> NotFound, tier |-> "none", extra |-> n1.extra]

\* the finders run one after the other on the same price_data; none of
\* them reads a column another one added, so the columns after a tier
\* are those the tiers before it left together with its own
find_product(cat, name, sku) ==
    LET s1 == find_by_exact_sku(cat, sku)
        s2 == find_by_partial_sku(cat, sku)
        n3 == find_by_exact_name(cat, name)
        n4 == find_by_keywords(cat, name)
        n5 == find_by_fuzzy_match(cat, name)
    IN  IF sku # <<>> /\ s1.hit THEN Found(cat, s1.row, cat.extra, "exact_sku")
        ELSE IF sku # <<>> /\ s2.hit THEN Found(cat, s2.row, cat.extra, "partial_sku")
        ELSE IF n3.hit THEN Found(cat, n3.row, n3.extra, "exact_name")
        ELSE IF n4.hit THEN Found(cat, n4.row, n3.extra \cup n4.extra, "keywords")
        ELSE IF n5.hit
             THEN Found(cat, n5.row, n3.extra \cup n4.extra \cup n5.extra, "fuzzy")
        ELSE [out |-> NotFound, tier |-> "none",
              extra |-> n3.extra \cup n4.extra \cup n5.extra]

\* result['match_confidence'] = 'high'
WithConfidence(r) ==
    IF r.out.found
    THEN [r EXCEPT !.out = [found |-> TRUE, row |-> r.out.row, sku |-> r.out.sku,
                            name |-> r.out.name, price |-> r.out.price,
                            columns |-> r.out.columns, match_confidence |-> "high"]]
    ELSE r

\* find_best_match with return_alternatives left at False: every result
\* of find_product gets match_confidence 'high'
find_best_match(cat, name, sku) ==
    Only({WithConfidence(r) : r \in {find_product(cat, name, sku)}})

----------------------------------------------------------------------------
(* Document rendering (src/src/pdf_filler.py) and the Laticrete order      *)
(* processor (src/src/laticrete_processor.py)                              *)

\* the filling strategies in the order fill_order_form lists them
Methods == <<"pymupdf", "pdfrw", "pypdf", "overlay">>

MethodNames == {Methods[i] : i \in DOMAIN Methods}

\* what one strategy does when it is called: it writes a non-empty output
\* file and returns True, it returns False (no form fields, nothing
\* filled, output missing or empty), or it raises
Outcomes == {"written", "failed", "raised"}

\* PYMUPDF_AVAILABLE, PDFRW_AVAILABLE
Avails == [{"pymupdf", "pdfrw"} -> BOOLEAN]

IsAvailable(avail, m) == m \notin DOMAIN avail \/ avail[m]

\* methods = [...] of the auto mode: the optional strategies only when
\* their library was imported
AutoMethods(avail) == SelectSeq(Methods, LAMBDA m : IsAvailable(avail, m))

\* a strategy called in a library's absence returns False at once
Reports(avail, res, m) == IsAvailable(avail, m) /\ res[m] = "written"

\* the auto mode going on to the remaining strategies after a success
RECURSIVE TryAllMethods(_, _, _, _)
TryAllMethods(ms, avail, res, tried) ==
    IF ms = <<>>
    THEN [ok |-> \E i \in DOMAIN tried : Reports(avail, res, tried[i]), tried |-> tried,
          used |-> IF tried = <<>> THEN "none" ELSE tried[Len(tried)]]
    ELSE TryAllMethods(Tail(ms), avail, res, Append(tried, Head(ms)))

\* the for loop of the auto mode: the first strategy that returns True
\* ends it, one that returns False or raises is followed by the next
RECURSIVE TryMethods(_, _, _, _)
TryMethods(ms, avail, res, tried) ==
    IF ms = <<>> THEN [ok |-> FALSE, tried |-> tried, used |-> "none"]
    ELSE IF Reports(avail, res, Head(ms))
         THEN [ok |-> TRUE, tried |-> Append(tried, Head(ms)), used |-> Head(ms)]
         ELSE TryMethods(Tail(ms), avail, res, Append(tried, Head(ms)))

fill_order_form(method, avail, res) ==
    IF method = "auto" THEN TryMethods(AutoMethods(avail), avail, res, <<>>)
    ELSE IF method \notin MethodNames THEN [ok |-> FALSE, tried |-> <<>>, used |-> "none"]
    ELSE [ok |-> Reports(avail, res, method), tried |-> <<method>>,
          used |-> IF Reports(avail, res, method) THEN method ELSE "none"]

\* product_name[10:] when the name starts with "laticrete "
StripLaticrete(name) ==
    IF Len(name) >= 10
       /\ UpperStr(SubSeq(name, 1, 10)) = <<"L", "A", "T", "I", "C", "R", "E", "T", "E", " ">>
    THEN SubSeq(name, 11, Len(name))
    ELSE name

\* d[k] = v on a dict
Put(d, k, v) == [x \in DOMAIN d \cup {k} |-> IF x = k THEN v ELSE d[x]]

\* _enrich_with_prices writing the price list's price over the raw one
EnrichOneReprice(product, info) ==
    IF info.found
    THEN [given |-> product,
          out |-> Put(Put(Put(product, "list_price", info.price), "price", info.price),
                      "needs_verification", FALSE)]
    ELSE [given |-> product,
          out |-> Put(Put(product, "list_price", "none"), "needs_verification", TRUE)]

\* one product of _enrich_with_prices: enriched_product is a copy of the
\* product; a match sets list_price on the copy (and sku when the copy has
\* none), a miss sets needs_verification.  given is the product passed in
\* as the iteration leaves it, out the copy.  needs_verification is kept
\* as p.get('needs_verification', False) reads it, list_price "none" is
\* the key not set.
EnrichOne(product, info) ==
    IF info.found
    THEN [given |-> product,
          out |-> Put(Put(IF product.sku = <<>> /\ info.sku # Missing
                          THEN Put(product, "sku", info.sku)
                          ELSE product,
                          "list_price", info.price),
                      "needs_verification", FALSE)]
    ELSE [given |-> product,
          out |-> Put(Put(product, "list_price", "none"), "needs_verification", TRUE)]

\* the for loop of _enrich_with_prices, one find_product call per product
\* on the same price_data
RECURSIVE enrich_with_prices(_, _)
enrich_with_prices(cat, products) ==
    IF products = <<>> THEN [products |-> <<>>, given |-> <<>>, extra |-> cat.extra]
    ELSE Only({Only({Only({[products |-> <<one.out>> \o rest.products,
                            given |-> <<one.given>> \o rest.given,
                            extra |-> rest.extra] :
                           one \in {EnrichOne(Head(products), r.out)}}) :
                     rest \in {enrich_with_prices([cat EXCEPT !.extra = r.extra],
                                                  Tail(products))}}) :
               r \in {find_product(cat, StripLaticrete(Head(products).name),
                                   Head(products).sku)}})

\* process_order sending the e-mail whether or not a PDF was made
process_order_unrendered(cat, products, render, sendOk) ==
    Only({[ok |-> sendOk, enriched |-> e.products, given |-> e.given,
           extra |-> e.extra, rendered |-> render.ok, dispatched |-> sendOk] :
          e \in {enrich_with_prices(cat, products)}})

\* process_order giving up on an order that has an unmatched product
process_order_strict(cat, products, render, sendOk) ==
    Only({LET ok == /\ render.ok /\ sendOk
                    /\ \A i \in DOMAIN e.products : ~e.products[i].needs_verification
          IN  [ok |-> ok, enriched |-> e.products, given |-> e.given, extra |-> e.extra,
               rendered |-> render.ok, dispatched |-> ok] :
          e \in {enrich_with_prices(cat, products)}})

\* process_order: enrich, render (returns False when no PDF was made),
\* send the e-mail with the PDF
process_order(cat, products, render, sendOk) ==
    Only({[ok |-> render.ok /\ sendOk, enriched |-> e.products, given |-> e.given,
           extra |-> e.extra, rendered |-> render.ok, dispatched |-> render.ok /\ sendOk] :
          e \in {enrich_with_prices(cat, products)}})

----------------------------------------------------------------------------
(* Inputs of the resolver and of the Laticrete processor *)

NameAlphabet == {"A", "b", " ", "-"}
SkuAlphabet  == {"#", "-", "5", "G"}

StringsOver(alphabet, n) == UNION {[1..k -> alphabet] : k \in 0..n}

Names == StringsOver(NameAlphabet, MaxNameLen)
Skus  == StringsOver(SkuAlphabet, MaxSkuLen)

SampleNames == {<<>>, <<"B", "B", "A">>, <<"A", "b", "A">>, <<"A", "-", "A", "B">>}
SampleSkus  == {<<>>, <<"5", "-", "G">>, <<"#", "2", "5", "4", "-", "5", "0", "-", "G">>}

\* (product_name, sku) pairs: every name with a few SKUs, every SKU with a
\* few names
Queries ==
    {[name |-> n, sku |-> s] : n \in Names, s \in SampleSkus}
    \cup {[name |-> n, sku |-> s] : n \in SampleNames, s \in Skus}

SampleQueries == {[name |-> n, sku |-> s] : n \in SampleNames, s \in SampleSkus}

\* order_data['laticrete_products'] entries: one the price list holds, one
\* it does not, one with neither name nor SKU, one the price list holds
\* that came without SKU
SampleItems ==
    {[name |-> <<"A", "A", "B">>, sku |-> <<"5", "-", "G">>, quantity |-> 2, price |-> "q1"],
     [name |-> <<"-", "-">>, sku |-> <<"#">>, quantity |-> 1, price |-> "q2"],
     [name |-> <<>>, sku |-> <<>>, quantity |-> 1, price |-> ""],
     [name |-> <<"A", "B", "B", "A">>, sku |-> <<>>, quantity |-> 3, price |-> "q4"]}

SampleOrders == UNION {[1..n -> SampleItems] : n \in 0..MaxItems}

\* the price list file of the deployment
LoadedCatalog ==
    <<[sku |-> <<"5", "-", "G">>, brand |-> Missing, desc |-> <<"A", "A", "B">>, price |-> "p1"],
      [sku |-> <<"2", "5", "4", "-", "5", "0", "G">>, brand |-> <<"B">>,
       desc |-> <<"A", "B", "B", "A">>, price |-> "p2"]>>

NoQuery == [op |-> "none", name |-> <<>>, sku |-> <<>>, out |-> NotFound, tier |-> "none"]
NoLat   == [key |-> NoKey, products |-> <<>>, given |-> <<>>, enriched |-> <<>>,
            renderOk |-> FALSE, mailOk |-> FALSE, ok |-> FALSE]
NoPdf   == [method |-> "none", tried |-> <<>>, ok |-> FALSE, used |-> "none"]

\* no load_price_list call is running
NoLoad == [pc |-> "idle", failed |-> FALSE]

\* OrderTracker._lock as threading.Lock() creates it
Free == 0

\* a thread that is in no tracker method
NoOp == [op |-> "none", pc |-> "idle", exit |-> "none", done |-> 0]

\* no _send_with_retry call made
NoSend == [pc |-> "idle", ssl |-> FALSE, attempt |-> 0, sends |-> 0, hist |-> <<>>,
           result |-> "none"]

InitPart ==
    /\ ld = NoLoad
    /\ lock = Free
    /\ th = [t \in Threads |-> NoOp]
    /\ sr = NoSend

\* PriceListReader() and PDFOrderFormFiller() constructed, nothing called
InitCore ==
    /\ catalog = [rows |-> LoadedCatalog, extra |-> {}]
    /\ rq = NoQuery
    /\ lat = NoLat
    /\ pdf = NoPdf
    /\ InitPart

----------------------------------------------------------------------------
InitTrack ==
    /\ rows = {}
    /\ nextId = 1
    /\ log = [k \in Keys |-> <<>>]
    /\ now = 0
    /\ pc = [p \in Procs |-> "idle"]
    /\ nemails = [p \in Procs |-> 0]
    /\ cur = [p \in Procs |-> NoEmail]
    /\ idx = [p \in Procs |-> 1]
    /\ part = [p \in Procs |-> 1]
    /\ okey = [p \in Procs |-> NoKey]
    /\ existing = [p \in Procs |-> NoRow]
    /\ outcome = [p \in Procs |-> "none"]
    /\ cycles = [p \in Procs |-> 0]
    /\ delivered = [k \in Keys |-> 0]
    /\ ret = NoRet
    /\ calls = 0

Init ==
    /\ InitTrack
    /\ InitCore

\* time passes
Tick ==
    /\ now < MaxTime
    /\ now' = now + 1
    /\ UNCHANGED <<coreVars, rows, nextId, log, orchVars, delivered, ret, calls>>

----------------------------------------------------------------------------
(* Direct calls of the store methods (manage_orders CLI, admin panel,      *)
(* test scripts).                                                          *)

CallCheck ==
    /\ calls < MaxCalls
    /\ \E k \in Keys, dbOk \in BOOLEAN, logOk \in BOOLEAN :
         LET r == has_order_been_sent(k, dbOk, logOk)
         IN  /\ log' = r.log
             /\ ret' = [op |-> "has_order_been_sent", key |-> k, ok |-> r.is_sent, order |-> r.order, fault |-> ~dbOk]
    /\ calls' = calls + 1
    /\ UNCHANGED <<coreVars, rows, nextId, now, orchVars, delivered>>

CallMarkSent ==
    /\ calls < MaxCalls
    /\ \E k \in Keys, snap \in Snaps, dbOk \in BOOLEAN, logOk \in BOOLEAN :
         LET r == mark_order_as_sent(k, snap, Recipient(k), dbOk, logOk)
         IN  /\ rows' = r.rows
             /\ nextId' = r.nextId
             /\ log' = r.log
             /\ ret' = [op |-> "mark_order_as_sent", key |-> k, ok |-> r.ok, fault |-> ~dbOk,
                        snap |-> snap]
    /\ calls' = calls + 1
    /\ UNCHANGED <<coreVars, now, orchVars, delivered>>

CallSaveFailed ==
    /\ calls < MaxCalls
    /\ \E k \in Keys, snap \in Snaps \cup {"null"}, dbOk \in BOOLEAN, logOk \in BOOLEAN :
         LET r == save_failed_order(k, "e1", snap, dbOk, logOk)
         IN  /\ rows' = r.rows
             /\ nextId' = r.nextId
             /\ log' = r.log
             /\ ret' = [op |-> "save_failed_order", key |-> k, ok |-> r.ok, fault |-> ~dbOk]
    /\ calls' = calls + 1
    /\ UNCHANGED <<coreVars, now, orchVars, delivered>>

CallUpdateStatus ==
    /\ calls < MaxCalls
    /\ \E k \in Keys, status \in Statuses, sentTo \in {"null", "cs"}, err \in {"null", "e2"},
          dbOk \in BOOLEAN, logOk \in BOOLEAN :
         LET r == update_order_status(k, status, sentTo, err, dbOk, logOk)
         IN  /\ rows' = r.rows
             /\ log' = r.log
             /\ ret' = [op |-> "update_order_status", key |-> k, ok |-> r.ok, fault |-> ~dbOk]
    /\ calls' = calls + 1
    /\ UNCHANGED <<coreVars, nextId, now, orchVars, delivered>>

CallCleanup ==
    /\ calls < MaxCalls
    /\ \E days \in 0..MaxTime, dbOk \in BOOLEAN :
         LET r == cleanup_old_records(days, dbOk)
         IN  /\ rows' = r.rows
             /\ log' = r.log
             /\ ret' = [op |-> "cleanup_old_records", key |-> NoKey, ok |-> dbOk, fault |-> ~dbOk,
                       deleted |-> r.deleted]
    /\ calls' = calls + 1
    /\ UNCHANGED <<coreVars, nextId, now, orchVars, delivered>>

CallDelete ==
    /\ calls < MaxCalls
    /\ \E k \in Keys, dbOk \in BOOLEAN :
         LET r == delete_order(k, dbOk)
         IN  /\ rows' = r.rows
             /\ log' = r.log
             /\ ret' = [op |-> "delete_order", key |-> k, ok |-> r.ok, fault |-> ~dbOk]
    /\ calls' = calls + 1
    /\ UNCHANGED <<coreVars, nextId, now, orchVars, delivered>>

\* PUT /orders/{order_id}
CallUpdateOrder ==
    /\ calls < MaxCalls
    /\ \E k \in Keys, newK \in Keys, sentTo \in {"null", "ops"}, dbOk \in BOOLEAN, logOk \in BOOLEAN :
         LET r == update_order(k, newK, sentTo, dbOk, logOk)
         IN  /\ rows' = r.rows
             /\ log' = r.log
             /\ ret' = [op |-> "update_order", key |-> k, ok |-> r.ok, fault |-> ~dbOk]
    /\ calls' = calls + 1
    /\ UNCHANGED <<coreVars, nextId, now, orchVars, delivered>>

\* POST /orders/{order_id}/resend
CallResend ==
    /\ calls < MaxCalls
    /\ \E k \in Keys, sendOk \in BOOLEAN, logOk \in BOOLEAN :
         LET r == resend_order(k, sendOk, logOk)
         IN  /\ log' = r.log
             /\ delivered' = [delivered EXCEPT ![k] = @ + r.dispatched]
             /\ ret' = [op |-> "resend_order", key |-> k, ok |-> r.ok, fault |-> FALSE]
    /\ calls' = calls + 1
    /\ UNCHANGED <<coreVars, rows, nextId, now, orchVars>>

----------------------------------------------------------------------------
(* The orchestrator: EmailProcessor.process_emails and its two handlers,   *)
(* one instance per element of Procs.                                      *)

\* both handlers tracking their order under the TileWare key
HandlerPrefixShared(e, prt) == "TW"

\* the handler called for e-mail e: the Laticrete one is the second
\* handler of a 'both' e-mail
HandlerPrefix(e, prt) ==
    IF prt = 2 THEN "LAT"
    ELSE IF e.ptype \in {"tileware", "both"} THEN "TW" ELSE "LAT"

\* a handler without its try/except: its exception reaches the except
\* clause of the whole cycle, which ends the for loop
EndOrderAbort(p, e, o) ==
    /\ outcome' = [outcome EXCEPT ![p] = o]
    /\ IF o = "error"
       THEN /\ pc' = [pc EXCEPT ![p] = "done"]
            /\ UNCHANGED <<part, idx, cur>>
       ELSE /\ pc' = [pc EXCEPT ![p] = "loop"]
            /\ IF e.ptype = "both" /\ part[p] = 1
               THEN /\ part' = [part EXCEPT ![p] = 2]
                    /\ idx' = idx
                    /\ cur' = [cur EXCEPT ![p] = e]
               ELSE /\ part' = [part EXCEPT ![p] = 1]
                    /\ idx' = [idx EXCEPT ![p] = @ + 1]
                    /\ cur' = [cur EXCEPT ![p] = NoEmail]

\* a handler returns: a 'both' e-mail goes on to its Laticrete handler,
\* any other e-mail is finished and the for loop advances
EndOrder(p, e, o) ==
    /\ outcome' = [outcome EXCEPT ![p] = o]
    /\ pc' = [pc EXCEPT ![p] = "loop"]
    /\ IF e.ptype = "both" /\ part[p] = 1
       THEN /\ part' = [part EXCEPT ![p] = 2]
            /\ idx' = idx
            /\ cur' = [cur EXCEPT ![p] = e]
       ELSE /\ part' = [part EXCEPT ![p] = 1]
            /\ idx' = [idx EXCEPT ![p] = @ + 1]
            /\ cur' = [cur EXCEPT ![p] = NoEmail]

\* the except clause of the for loop body: log and continue
SkipEmail(p, o) ==
    /\ outcome' = [outcome EXCEPT ![p] = o]
    /\ pc' = [pc EXCEPT ![p] = "loop"]
    /\ part' = [part EXCEPT ![p] = 1]
    /\ idx' = [idx EXCEPT ![p] = @ + 1]
    /\ cur' = [cur EXCEPT ![p] = NoEmail]

\* process_emails starts: fetch_tile_pro_depot_emails returns the order
\* e-mails of the last day (read or not), or raises
Fetch(p, B, maxN) ==
    /\ pc[p] \in {"idle", "done"}
    /\ cycles[p] < MaxCycles
    /\ cycles' = [cycles EXCEPT ![p] = @ + 1]
    /\ \E fetchOk \in B :
         IF fetchOk
         THEN /\ \E n \in 0..maxN : nemails' = [nemails EXCEPT ![p] = n]
              /\ pc' = [pc EXCEPT ![p] = "loop"]
         ELSE /\ nemails' = [nemails EXCEPT ![p] = 0]
              /\ pc' = [pc EXCEPT ![p] = "done"]
    /\ cur' = [cur EXCEPT ![p] = NoEmail]
    /\ idx' = [idx EXCEPT ![p] = 1]
    /\ part' = [part EXCEPT ![p] = 1]
    /\ outcome' = [outcome EXCEPT ![p] = "none"]
    /\ existing' = [existing EXCEPT ![p] = NoRow]
    /\ UNCHANGED <<coreVars, rows, nextId, log, now, okey, delivered, ret, calls>>

\* the loop takes the next e-mail (its content is drawn when the loop
\* reaches it): get_product_type, then the handler's extract_order_details
\* and validate_extraction
Begin(p, B) ==
    /\ pc[p] = "loop"
    /\ idx[p] <= nemails[p]
    /\ existing' = [existing EXCEPT ![p] = NoRow]
    /\ \E e \in Emails, typeOk \in B, extractOk \in B :
         /\ part[p] = 2 => e = cur[p]
         /\ IF part[p] = 1 /\ ~typeOk
            THEN SkipEmail(p, "email_error") /\ okey' = okey
            ELSE IF part[p] = 1 /\ e.ptype = "none"
            THEN SkipEmail(p, "skipped") /\ okey' = okey
            ELSE /\ okey' = [okey EXCEPT ![p] = OrderKey(HandlerPrefix(e, part[p]), e.num)]
                 /\ IF extractOk
                    THEN /\ pc' = [pc EXCEPT ![p] = "check"]
                         /\ outcome' = [outcome EXCEPT ![p] = "none"]
                         /\ cur' = [cur EXCEPT ![p] = e]
                         /\ UNCHANGED <<idx, part>>
                    ELSE EndOrder(p, e, "extract_failed")
    /\ UNCHANGED <<coreVars, rows, nextId, log, now, nemails, cycles, delivered, ret, calls>>

\* is_sent, existing_order = has_order_been_sent(key); if is_sent: return
Check(p, B) ==
    /\ pc[p] = "check"
    /\ \E dbOk \in B : \E logOk \in {dbOk} :
         LET r == has_order_been_sent(okey[p], dbOk, logOk)
         IN  /\ log' = r.log
             /\ existing' = [existing EXCEPT ![p] = r.order]
             /\ IF r.is_sent
                THEN EndOrder(p, cur[p], "duplicate")
                ELSE /\ pc' = [pc EXCEPT ![p] = "send"]
                     /\ UNCHANGED <<idx, part, outcome, cur>>
    /\ UNCHANGED <<coreVars, rows, nextId, now, nemails, okey, cycles, delivered, ret, calls>>

\* TileWare: format_order and send_order_to_cs; Laticrete: process_order
\* (enrich, render, send), which catches its own exceptions
Send(p, B) ==
    /\ pc[p] = "send"
    /\ \E res \in {"ok"} \cup (IF FALSE \in B THEN {"fail", "raise"} ELSE {}) :
         /\ res = "raise" => okey[p][1] = "TW"
         /\ IF res = "ok"
            THEN /\ delivered' = [delivered EXCEPT ![okey[p]] = @ + 1]
                 /\ pc' = [pc EXCEPT ![p] = "mark"]
                 /\ UNCHANGED <<idx, part, outcome, cur>>
            ELSE /\ delivered' = delivered
                 /\ EndOrder(p, cur[p], IF res = "fail" THEN "send_failed" ELSE "error")
    /\ UNCHANGED <<coreVars, rows, nextId, log, now, nemails, okey, existing, cycles, ret, calls>>

\* if success: mark_order_as_sent(key, ...)
Mark(p, B) ==
    /\ pc[p] = "mark"
    /\ \E dbOk \in B : \E logOk \in {dbOk} :
         LET r == mark_order_as_sent(okey[p], cur[p].snap, Recipient(okey[p]), dbOk, logOk)
         IN  /\ rows' = r.rows
             /\ nextId' = r.nextId
             /\ log' = r.log
             /\ EndOrder(p, cur[p], IF r.ok THEN "sent" ELSE "sent_untracked")
    /\ UNCHANGED <<coreVars, now, nemails, okey, existing, cycles, delivered, ret, calls>>

\* the for loop is exhausted: "Email processing cycle completed"
Finish(p) ==
    /\ pc[p] = "loop"
    /\ idx[p] > nemails[p]
    /\ pc' = [pc EXCEPT ![p] = "done"]
    /\ outcome' = [outcome EXCEPT ![p] = "none"]
    /\ existing' = [existing EXCEPT ![p] = NoRow]
    /\ okey' = [okey EXCEPT ![p] = NoKey]
    /\ UNCHANGED <<coreVars, rows, nextId, log, now, nemails, cur, idx, part,
                   cycles, delivered, ret, calls>>

\* the process is killed while a cycle runs; its locals are lost
Crash(p) ==
    /\ pc[p] \in {"loop", "check", "send", "mark"}
    /\ pc' = [pc EXCEPT ![p] = "idle"]
    /\ nemails' = [nemails EXCEPT ![p] = 0]
    /\ cur' = [cur EXCEPT ![p] = NoEmail]
    /\ idx' = [idx EXCEPT ![p] = 1]
    /\ part' = [part EXCEPT ![p] = 1]
    /\ outcome' = [outcome EXCEPT ![p] = "none"]
    /\ existing' = [existing EXCEPT ![p] = NoRow]
    /\ okey' = [okey EXCEPT ![p] = NoKey]
    /\ UNCHANGED <<coreVars, rows, nextId, log, now, cycles, delivered, ret, calls>>

----------------------------------------------------------------------------
(* Calls of the resolver, the renderer and the Laticrete processor *)

\* a freshly loaded price list and the arguments of the call to come
InitResolve ==
    /\ InitTrack
    /\ catalog \in {[rows |-> c, extra |-> {}] : c \in Catalogs}
    /\ rq \in {[NoQuery EXCEPT !.name = q.name, !.sku = q.sku] : q \in Queries}
    /\ lat = NoLat
    /\ pdf = NoPdf
    /\ InitPart

\* a freshly loaded price list
InitCatalog ==
    /\ InitTrack
    /\ catalog \in {[rows |-> c, extra |-> {}] : c \in Catalogs}
    /\ rq = NoQuery
    /\ lat = NoLat
    /\ pdf = NoPdf
    /\ InitPart

PendingQuery == {[name |-> rq.name, sku |-> rq.sku]}

\* price_reader.find_product(name, sku)
Resolve(Q) ==
    /\ \E q \in Q :
         \E r \in {find_product(catalog, q.name, q.sku)} :
             /\ rq' = [op |-> "find_product", name |-> q.name, sku |-> q.sku,
                       out |-> r.out, tier |-> r.tier]
             /\ catalog' = [catalog EXCEPT !.extra = r.extra]
    /\ UNCHANGED <<trackVars, lat, pdf, partVars>>

\* price_reader.find_best_match(name, sku)
ResolveBest(Q) ==
    /\ \E q \in Q :
         \E r \in {find_best_match(catalog, q.name, q.sku)} :
             /\ rq' = [op |-> "find_best_match", name |-> q.name, sku |-> q.sku,
                       out |-> r.out, tier |-> r.tier]
             /\ catalog' = [catalog EXCEPT !.extra = r.extra]
    /\ UNCHANGED <<trackVars, lat, pdf, partVars>>

\* load_price_list: price_data is read again from the file
Reload ==
    /\ catalog' = [catalog EXCEPT !.extra = {}]
    /\ UNCHANGED <<trackVars, rq, lat, pdf, partVars>>

\* load_price_list up to its first assignment: a missing file or a failing
\* read_excel raises and leaves price_data as it was, otherwise price_data
\* is the sheet as read
LoadRead ==
    /\ ld.pc = "idle"
    /\ \E readOk \in BOOLEAN, sheet \in Sheets :
         IF readOk
         THEN /\ catalog' = [rows |-> sheet, extra |-> {}]
              /\ ld' = [pc |-> "read", failed |-> FALSE]
         ELSE /\ catalog' = catalog
              /\ ld' = [pc |-> "idle", failed |-> TRUE]
    /\ UNCHANGED <<trackVars, rq, lat, pdf, lock, th, sr>>

\* load_price_list, its second assignment: price_data is the rows of
\* price_data that have a description
LoadFilter ==
    /\ ld.pc = "read"
    /\ catalog' = [catalog EXCEPT !.rows = FilterRows(@)]
    /\ ld' = [ld EXCEPT !.pc = "idle"]
    /\ UNCHANGED <<trackVars, rq, lat, pdf, lock, th, sr>>

\* pdf_filler.fill_order_form(order_data, output_path, method)
FillOrderForm ==
    /\ \E method \in {"auto", "other"} \cup MethodNames, avail \in Avails,
          res \in [MethodNames -> Outcomes] :
         \E r \in {fill_order_form(method, avail, res)} :
             pdf' = [method |-> method, avail |-> avail, res |-> res,
                     tried |-> r.tried, ok |-> r.ok, used |-> r.used]
    /\ UNCHANGED <<trackVars, catalog, rq, lat, partVars>>

\* the renderer's strategies as process_order meets them
RenderOutcomes(B) ==
    IF FALSE \in B THEN [MethodNames -> Outcomes] ELSE {[m \in MethodNames |-> "written"]}

\* _process_laticrete_order after its duplicate check:
\* laticrete_processor.process_order(order_details) with both optional
\* libraries installed
ProcessLaticrete(p, B) ==
    /\ pc[p] = "send"
    /\ okey[p][1] = "LAT"
    /\ \E products \in SampleOrders, res \in RenderOutcomes(B), sendOk \in B :
         \E render \in {fill_order_form("auto", [m \in {"pymupdf", "pdfrw"} |-> TRUE], res)} :
         \E r \in {process_order(catalog, products, render, sendOk)} :
             /\ lat' = [key |-> okey[p], products |-> products, given |-> r.given,
                        enriched |-> r.enriched, renderOk |-> render.ok, mailOk |-> sendOk,
                        ok |-> r.ok]
             /\ catalog' = [catalog EXCEPT !.extra = r.extra]
             /\ IF r.ok
                THEN /\ delivered' = [delivered EXCEPT ![okey[p]] = @ + 1]
                     /\ pc' = [pc EXCEPT ![p] = "mark"]
                     /\ UNCHANGED <<idx, part, outcome, cur>>
                ELSE /\ delivered' = delivered
                     /\ EndOrder(p, cur[p], "send_failed")
    /\ UNCHANGED <<rows, nextId, log, now, nemails, okey, existing, cycles, ret, calls, rq, pdf,
                   partVars>>

----------------------------------------------------------------------------
(* Specifications *)

\* the store alone, under direct calls in any order
NextStore ==
    \/ Tick
    \/ CallCheck
    \/ CallMarkSent
    \/ CallSaveFailed
    \/ CallUpdateStatus
    \/ CallCleanup
    \/ CallDelete
    \/ CallUpdateOrder
    \/ CallResend

SpecStore == Init /\ [][NextStore]_vars

\* concurrent orchestrator instances on one database, racing within one
\* clock second; collaborators and the store may fail and an instance may
\* be killed
Next ==
    \/ \E p \in Procs : Fetch(p, BOOLEAN, MaxRace)
    \/ \E p \in Procs : Begin(p, BOOLEAN)
    \/ \E p \in Procs : Check(p, BOOLEAN)
    \/ \E p \in Procs : Send(p, BOOLEAN)
    \/ \E p \in Procs : Mark(p, BOOLEAN)
    \/ \E p \in Procs : Finish(p)
    \/ \E p \in Procs : Crash(p)

Spec == Init /\ [][Next]_vars

\* one orchestrator instance running alone; collaborators and the store
\* may fail and the instance may be killed
NextSeq ==
    \/ Tick
    \/ Fetch("p1", BOOLEAN, MaxEmails)
    \/ Begin("p1", BOOLEAN)
    \/ Check("p1", BOOLEAN)
    \/ Send("p1", BOOLEAN)
    \/ Mark("p1", BOOLEAN)
    \/ Finish("p1")
    \/ Crash("p1")

SpecSeq == Init /\ [][NextSeq]_vars

\* one orchestrator instance running alone, all collaborators succeeding
NextOk ==
    \/ Tick
    \/ Fetch("p1", {TRUE}, MaxEmails)
    \/ Begin("p1", {TRUE})
    \/ Check("p1", {TRUE})
    \/ Send("p1", {TRUE})
    \/ Mark("p1", {TRUE})
    \/ Finish("p1")

SpecOk == Init /\ [][NextOk]_vars

\* find_product and find_best_match on a freshly loaded price list, for
\* every price list and every pair of arguments
NextResolve ==
    \/ Resolve(PendingQuery)
    \/ ResolveBest(PendingQuery)

SpecResolve == InitResolve /\ [][NextResolve]_vars

\* calls of the resolver one after the other on one PriceListReader
NextCatalog ==
    \/ Resolve(SampleQueries)
    \/ ResolveBest(SampleQueries)
    \/ Reload

SpecCatalog == InitCatalog /\ [][NextCatalog]_vars

\* a thread reloading the price list while another one resolves products
NextReload ==
    \/ LoadRead
    \/ LoadFilter
    \/ Resolve(SampleQueries)

SpecReload == InitCatalog /\ [][NextReload]_vars

\* calls of the renderer
NextRender == FillOrderForm

SpecRender == Init /\ [][NextRender]_vars

\* one orchestrator instance whose Laticrete orders go through
\* process_order; collaborators and the store may fail
NextLat ==
    \/ Fetch("p1", BOOLEAN, 1)
    \/ Begin("p1", BOOLEAN)
    \/ Check("p1", BOOLEAN)
    \/ (okey["p1"][1] = "TW" /\ Send("p1", BOOLEAN))
    \/ ProcessLaticrete("p1", BOOLEAN)
    \/ Mark("p1", BOOLEAN)
    \/ Finish("p1")

SpecLat == Init /\ [][NextLat]_vars


----------------------------------------------------------------------------
(* Claims *)

SentRows(k) == {r \in RowsOf(k) : r.status = "sent"}

SentEntries(k) == {i \in 1..Len(log[k]) : log[k][i].action = "sent"}

\* C1: a key never has more than one record with status sent, whatever
\* calls were made on it and in whatever order; and right after a
\* mark_order_as_sent call on a key has succeeded, the table holds exactly
\* one record for that key and its status is sent.
C1_OneSentRecord ==
    /\ \A k \in Keys : Cardinality(SentRows(k)) <= 1
    /\ (ret.op = "mark_order_as_sent" /\ ret.ok)
          => /\ Cardinality(RowsOf(ret.key)) = 1
             /\ SentRows(ret.key) = RowsOf(ret.key)

\* C1 witness: a key has been marked as sent at least twice and holds one record
C1_Witness ==
    /\ ret.op = "mark_order_as_sent" /\ ret.ok
    /\ Cardinality(SentEntries(ret.key)) >= 2
    /\ Cardinality(SentRows(ret.key)) = 1

\* C2: a mark_order_as_sent call on a key that has a record returns False
\* and leaves the table as it was.
C2_RejectOnConflict ==
    [][\A k \in Keys :
          (calls' = calls + 1 /\ ret'.op = "mark_order_as_sent" /\ ret'.key = k /\ RowsOf(k) # {})
             => (ret'.ok = FALSE /\ rows' = rows)]_vars

\* C3: no order key is dispatched to the fulfillment team more than once.
C3_AtMostOnce ==
    \A k \in Keys : delivered[k] <= 1

\* C4: two instances are never both past the duplicate check of the same
\* order key with the answer "not sent".
C4_NotBothUnsent ==
    \A p, q \in Procs :
        (p # q /\ pc[p] \in {"send", "mark"} /\ pc[q] \in {"send", "mark"})
           => okey[p] # okey[q]

\* C5: when the processing of an order has ended and its e-mail was
\* dispatched, the store holds a sent record for its key.
C5_NoDispatchWithoutRecord ==
    \A p \in Procs :
        (pc[p] = "loop" /\ outcome[p] # "none" /\ okey[p] # NoKey /\ delivered[okey[p]] > 0)
           => SentRows(okey[p]) # {}

IsCheck(e, details) == e.action = "duplicate_check" /\ e.details = details

\* C6: with all collaborators succeeding and one instance submitting, the
\* first submission of a key is checked (not found), dispatched once and
\* recorded as sent, and every later one is a duplicate that carries the
\* stored record and dispatches nothing; the key then has exactly one
\* record.  The duplicate check answers (False, None) while the key has no
\* record and (True, the record of that key) once it was marked as sent.
C6_SentThenDuplicate ==
    /\ \A k \in Keys :
         /\ delivered[k] <= 1
         /\ Cardinality(RowsOf(k)) <= 1
         /\ Len(log[k]) >= 1 => IsCheck(log[k][1], "Order not found")
         /\ Len(log[k]) >= 2 => /\ log[k][2].action = "sent"
                                /\ delivered[k] = 1
                                /\ Cardinality(SentRows(k)) = 1
         /\ \A i \in 3..Len(log[k]) : IsCheck(log[k][i], "Order already sent")
         /\ RowsOf(k) = {} => Len(log[k]) <= 1
    /\ \A p \in Procs :
         /\ outcome[p] \in {"none", "skipped", "sent", "duplicate"}
         /\ pc[p] \in {"send", "mark"} => existing[p] = NoRow /\ Len(log[okey[p]]) = 1
         /\ outcome[p] = "sent" => Len(log[okey[p]]) = 2
         /\ outcome[p] = "duplicate" => /\ existing[p] \in SentRows(okey[p])
                                        /\ Len(log[okey[p]]) >= 3

\* C6 witness: the second submission of a key has ended as a duplicate
C6_Witness ==
    /\ outcome["p1"] = "duplicate"
    /\ delivered[okey["p1"]] = 1
    /\ existing["p1"] \in SentRows(okey["p1"])
    /\ Len(log[okey["p1"]]) = 3

StatusEdges ==
    {<<"pending", "sent">>, <<"pending", "failed">>, <<"failed", "sent">>, <<"failed", "resolved">>}

\* C7: every record's status is one of the four, every change of a
\* record's status is an edge of the state machine, and a sent record
\* keeps its status until it is deleted.
C7_StateMachine ==
    [][\A k \in Keys :
          /\ \A r \in RowsOf(k)' : r.status \in Statuses
          /\ (RowsOf(k) # {} /\ RowsOf(k)' # {})
                => \/ SelectOrder(k)'.status = SelectOrder(k).status
                   \/ <<SelectOrder(k).status, SelectOrder(k)'.status>> \in StatusEdges]_vars

\* C8: a save_failed_order call on a key that has a record returns False
\* and changes neither the table nor the log; on a key without a record it
\* inserts, unless the storage fails, exactly one record, with status
\* failed, the error detail and the snapshot, and touches no other record.
C8_SaveFailed ==
    [][\A k \in Keys :
          (calls' = calls + 1 /\ ret'.op = "save_failed_order" /\ ret'.key = k)
             => IF RowsOf(k) # {}
                THEN ret'.ok = FALSE /\ rows' = rows /\ log' = log
                ELSE IF ret'.fault
                THEN ret'.ok = FALSE /\ rows' = rows /\ log' = log
                ELSE /\ ret'.ok = TRUE
                     /\ rows \subseteq rows'
                     /\ Cardinality(rows' \ rows) = 1
                     /\ \A r \in rows' \ rows :
                          /\ r.order_id = k
                          /\ r.status = "failed"
                          /\ r.error_message = "e1"
                          /\ r.snap \in Snaps \cup {"null"}
                          /\ r.sent_to = "pending"]_vars

\* C8 witness: a save_failed_order call was rejected because the key has a
\* sent record
C8_Witness ==
    /\ ret.op = "save_failed_order" /\ ~ret.ok /\ ~ret.fault
    /\ SentRows(ret.key) # {}

\* C9: when the processing of an order has ended in a collaborator failure,
\* the store holds a failed record for its key.
C9_FailureRecorded ==
    \A p \in Procs :
        (pc[p] = "loop" /\ outcome[p] \in {"extract_failed", "send_failed", "error"})
           => \E r \in RowsOf(okey[p]) : r.status = "failed"

\* C10: the for loop of process_emails visits the fetched e-mails one by
\* one, whatever the outcome of each, and the cycle completes only when
\* every fetched e-mail has been handled.
C10_AllProcessed ==
    /\ [](\A p \in Procs : /\ idx[p] \in 1..(nemails[p] + 1)
                           /\ pc[p] = "done" => idx[p] = nemails[p] + 1
                           /\ pc[p] \in {"check", "send", "mark"} => idx[p] <= nemails[p])
    /\ [][\A p \in Procs :
             /\ idx'[p] # idx[p]
                   => \/ idx'[p] = idx[p] + 1 /\ pc[p] # "idle" /\ pc'[p] = "loop"
                      \/ idx'[p] = 1 /\ (cycles'[p] = cycles[p] + 1 \/ pc'[p] = "idle")
             /\ (pc[p] = "loop" /\ idx[p] <= nemails[p] /\ pc'[p] = "done") => FALSE]_vars

\* C10 witness: a cycle of two e-mails has completed, the first order
\* failed after its duplicate check and the second one was sent
C10_Witness ==
    /\ pc["p1"] = "loop" /\ nemails["p1"] = 2 /\ idx["p1"] = 3
    /\ outcome["p1"] = "sent" /\ okey["p1"] = OrderKey("LAT", 1)
    /\ Len(log[OrderKey("TW", 1)]) = 1 /\ delivered[OrderKey("TW", 1)] = 0

IsPrefix(s, t) == Len(s) <= Len(t) /\ SubSeq(t, 1, Len(s)) = s

\* C11: every call that commits a change of a key's record
\* (mark_order_as_sent, save_failed_order, update_order_status) appends
\* exactly one entry to that key's log, stamped no earlier than the entry
\* before it.
C11_AuditComplete ==
    [][\A k \in Keys :
          (/\ calls' = calls + 1
           /\ ret'.key = k
           /\ ret'.op \in {"mark_order_as_sent", "save_failed_order", "update_order_status"}
           /\ rows' # rows)
             => /\ Len(log'[k]) = Len(log[k]) + 1
                /\ IsPrefix(log[k], log'[k])
                /\ Len(log[k]) > 0
                      => log'[k][Len(log'[k])].timestamp >= log[k][Len(log[k])].timestamp]_vars

\* C12: the log of a key only grows, every step leaves the entries it had
\* in place, and get_order_history returns them latest first.
C12_AppendOnly ==
    /\ [](\A k \in Keys : \A i, j \in 1..Len(log[k]) :
             i < j => get_order_history(k)[i].timestamp >= get_order_history(k)[j].timestamp)
    /\ [][\A k \in Keys : IsPrefix(log[k], log'[k])]_vars

\* C13: a resend of a key that has a sent record runs the duplicate check
\* of the store, which answers "Order already sent", and dispatches nothing.
C13_ResendChecksDuplicate ==
    [][\A k \in Keys :
          (calls' = calls + 1 /\ ret'.op = "resend_order" /\ ret'.key = k /\ SentRows(k) # {})
             => /\ delivered'[k] = delivered[k]
                /\ Len(log'[k]) > Len(log[k])
                /\ IsCheck(log'[k][Len(log'[k])], "Order already sent")]_vars

\* C14: find_product returns the entry of the first tier that succeeds, in
\* the order exact SKU, partial SKU, exact name, keywords, fuzzy, and no
\* entry when none does; when an entry's SKU equals the cleaned input SKU,
\* the result is the first such entry, whatever the name tiers would find.
TierHits(cat, name, sku) ==
    <<IF sku # <<>> THEN find_by_exact_sku(cat, sku) ELSE NoHit({}),
      IF sku # <<>> THEN find_by_partial_sku(cat, sku) ELSE NoHit({}),
      find_by_exact_name(cat, name),
      find_by_keywords(cat, name),
      find_by_fuzzy_match(cat, name)>>

TierNames == <<"exact_sku", "partial_sku", "exact_name", "keywords", "fuzzy">>

ExactSkuEligible(cat, sku) ==
    {i \in DOMAIN cat.rows : sku # <<>> /\ Strip(Str(cat.rows[i].sku)) = CleanSku(sku)}

C14_CascadeOrder ==
    rq.op = "find_product" =>
        LET hits == TierHits(catalog, rq.name, rq.sku)
            elig == ExactSkuEligible(catalog, rq.sku)
        IN  /\ elig # {} => /\ rq.out.found
                            /\ rq.tier = "exact_sku"
                            /\ rq.out.row = FirstOf(elig)
            /\ \A t \in 1..5 :
                 (hits[t].hit /\ \A u \in 1..(t - 1) : ~hits[u].hit)
                    => /\ rq.out.found
                       /\ rq.tier = TierNames[t]
                       /\ rq.out.row = hits[t].row
            /\ (\A t \in 1..5 : ~hits[t].hit) => ~rq.out.found

\* C14 witness: the input SKU is the SKU of one entry, the input name is
\* contained in the description of another, and the first one is returned
C14_Witness ==
    /\ rq.op = "find_product" /\ rq.name # <<>>
    /\ rq.tier = "exact_sku"
    /\ find_by_exact_name(catalog, rq.name).hit
    /\ find_by_exact_name(catalog, rq.name).row # rq.out.row

\* C15: when the exact SKU tier has failed, the partial SKU tier returns
\* the first entry of which the SKU's tokens contain 70% or more of the
\* input SKU's tokens (runs of digits, runs of letters), and nothing when
\* the input has no token or no entry reaches 70%.
InputTokens(sku) == Tokens(UpperStr(CleanSku(sku)))

Reaches70(cat, sku, i) ==
    LET parts    == InputTokens(sku)
        rowParts == Tokens(UpperStr(Strip(Str(cat.rows[i].sku))))
        shared   == {k \in 1..Len(parts) : parts[k] \in {rowParts[j] : j \in 1..Len(rowParts)}}
    IN  parts # <<>> /\ 10 * Cardinality(shared) >= 7 * Len(parts)

C16_EmptyIsNoMatch ==
    (rq.op = "find_product" /\ rq.name = <<>> /\ rq.sku = <<>>) => ~rq.out.found

\* C17: process_order keeps every product's raw name, flags exactly the
\* products the price list does not hold and succeeds whenever rendering
\* and mailing succeed; the order is then dispatched once, goes on to be
\* recorded, and ends as sent with a sent record.
C17_MissIsNotFatal ==
    /\ [](lat.key # NoKey =>
            /\ Len(lat.enriched) = Len(lat.products)
            /\ \A i \in DOMAIN lat.products :
                 /\ lat.enriched[i].name = lat.products[i].name
                 /\ lat.enriched[i].needs_verification
                       = ~find_product(catalog, StripLaticrete(lat.products[i].name),
                                       lat.products[i].sku).out.found
                 /\ lat.enriched[i].needs_verification
                       => lat.enriched[i].sku = lat.products[i].sku
            /\ (lat.renderOk /\ lat.mailOk) => lat.ok)
    /\ [](\A p \in Procs :
            (outcome[p] = "sent" /\ okey[p] = lat.key) => (lat.ok /\ SentRows(okey[p]) # {}))
    /\ [][\A p \in Procs :
            /\ (pc[p] = "send" /\ okey[p][1] = "LAT" /\ pc'[p] # "send")
                  => IF lat'.ok
                     THEN pc'[p] = "mark" /\ delivered'[okey[p]] = delivered[okey[p]] + 1
                     ELSE delivered' = delivered
            /\ (pc[p] = "mark" /\ pc'[p] # "mark" /\ rows' # rows)
                  => outcome'[p] = "sent"]_vars

\* C17 witness: an order with a product the price list does not hold has
\* ended as sent
C17_Witness ==
    /\ outcome["p1"] = "sent" /\ okey["p1"] = lat.key
    /\ \E i \in DOMAIN lat.enriched :
         lat.enriched[i].needs_verification /\ lat.products[i].name # <<>>
    /\ SentRows(lat.key) # {}
    /\ delivered[lat.key] = 1

\* C18: only a result of the exact SKU tier is reported with the highest
\* confidence.
C18_ConfidenceByTier ==
    (rq.op = "find_best_match" /\ rq.out.found /\ rq.out.match_confidence = "high")
       => rq.tier = "exact_sku"

\* C19: the result of a find_product call is the one the same call gives
\* on the price list as loaded, and no call changes price_data.
C19_Deterministic ==
    /\ [](rq.op = "find_product"
            => rq.out = find_product([catalog EXCEPT !.extra = {}], rq.name, rq.sku).out)
    /\ [][catalog' = catalog \/ catalog' = [catalog EXCEPT !.extra = {}]]_vars

\* C20: in auto mode fill_order_form calls the available strategies in
\* the order pymupdf, pdfrw, pypdf, overlay, stops at the first one that
\* wrote its output and returns True, goes past one that returned False or
\* raised, and returns False only after all of them have failed.
C20_FallbackChain ==
    pdf.method = "auto" =>
        LET order == SelectSeq(<<"pymupdf", "pdfrw", "pypdf", "overlay">>,
                               LAMBDA m : m \in {"pypdf", "overlay"} \/ pdf.avail[m])
            n     == Len(pdf.tried)
        IN  /\ IsPrefix(pdf.tried, order)
            /\ \A i \in 1..(n - 1) : pdf.res[pdf.tried[i]] # "written"
            /\ pdf.ok => /\ n >= 1
                         /\ pdf.res[pdf.tried[n]] = "written"
                         /\ pdf.used = pdf.tried[n]
            /\ ~pdf.ok => /\ pdf.tried = order
                          /\ \A i \in 1..n : pdf.res[pdf.tried[i]] # "written"

\* C20 witness: the first strategy raised, the second returned False, the
\* third wrote the form and the overlay was not called
C20_Witness ==
    /\ pdf.method = "auto" /\ pdf.ok
    /\ pdf.avail["pymupdf"] /\ pdf.avail["pdfrw"]
    /\ pdf.res["pymupdf"] = "raised" /\ pdf.res["pdfrw"] = "failed"
    /\ pdf.tried = <<"pymupdf", "pdfrw", "pypdf">>
    /\ pdf.used = "pypdf"

\* C21: a find_product call never returns a row that has no description
\* (it runs on the rows of a completed load), and a load_price_list call
\* that raises leaves price_data as it was.
C21_AtomicReload ==
    /\ [][(rq' # rq /\ rq'.out.found) => Described(catalog.rows[rq'.out.row])]_vars
    /\ [][(ld' # ld /\ ld'.failed) => catalog' = catalog]_vars

(***************************************************************************)
(* OrderTracker._lock: threads calling the methods of one tracker.  A      *)
(* method is entered, takes the lock where its body is inside "with        *)
(* self._lock", runs its statements to one of its exits, calls _log_action *)
(* on the exits that do, and returns; leaving the with block releases the  *)
(* lock on every exit.                                                     *)
(***************************************************************************)

\* the methods whose body is inside "with self._lock"
LockingOps == {"has_order_been_sent", "mark_order_as_sent", "cleanup_old_records",
               "save_failed_order", "update_order_status"}

\* the methods that only open a connection and read
ReadOps == {"get_sent_orders", "get_order_details", "get_order_history",
            "get_statistics", "get_failed_orders"}

TrackerOps == LockingOps \cup ReadOps

\* every method takes the lock (used to compare with UsesLock)
UsesLockAll(op) == op \in TrackerOps

UsesLock(op) == op \in LockingOps

\* the exits of a method: "ok" the statement succeeded, "reject" the method
\* returned its negative answer (no row found, row already there),
\* "exception" the except branch ran
Exits(op) ==
    IF op \in {"has_order_been_sent", "save_failed_order", "update_order_status"}
    THEN {"ok", "reject", "exception"}
    ELSE {"ok", "exception"}

\* the exits on which the method calls _log_action before it returns
LogsOn(op, exit) ==
    \/ op = "has_order_been_sent" /\ exit \in {"ok", "reject"}
    \/ op = "mark_order_as_sent" /\ exit \in {"ok", "exception"}
    \/ op = "save_failed_order" /\ exit = "ok"
    \/ op = "update_order_status" /\ exit = "ok"

\* a _log_action that takes the lock first (used to compare with LogWaits)
LogWaitsForLock(owner) == owner = Free

\* what _log_action waits for before it writes: nothing
LogWaits(owner) == TRUE

\* thread t calls method op
TCall(t) ==
    /\ th[t].pc = "idle" /\ th[t].done < MaxLockCalls
    /\ \E op \in TrackerOps :
         th' = [th EXCEPT ![t] = [@ EXCEPT !.op = op, !.exit = "none",
                                          !.pc = IF UsesLock(op) THEN "acquire"
                                                 ELSE "body"]]
    /\ lock' = lock
    /\ UNCHANGED <<trackVars, catalog, rq, lat, pdf, ld, sr>>

\* with self._lock: blocks until the lock is free
TAcquire(t) ==
    /\ th[t].pc = "acquire" /\ lock = Free
    /\ lock' = t
    /\ th' = [th EXCEPT ![t].pc = "body"]
    /\ UNCHANGED <<trackVars, catalog, rq, lat, pdf, ld, sr>>

\* the statements of the method on its own connection, to one of its exits
TBody(t) ==
    /\ th[t].pc = "body"
    /\ \E exit \in Exits(th[t].op) :
         th' = [th EXCEPT ![t] = [@ EXCEPT !.exit = exit,
                                          !.pc = IF LogsOn(th[t].op, exit) THEN "log"
                                                 ELSE "exit"]]
    /\ lock' = lock
    /\ UNCHANGED <<trackVars, catalog, rq, lat, pdf, ld, sr>>

\* _log_action, called inside the with block
TLog(t) ==
    /\ th[t].pc = "log" /\ LogWaits(lock)
    /\ th' = [th EXCEPT ![t].pc = "exit"]
    /\ lock' = lock
    /\ UNCHANGED <<trackVars, catalog, rq, lat, pdf, ld, sr>>

\* the return statement: the with block is left and the lock released
TReturn(t) ==
    /\ th[t].pc = "exit"
    /\ lock' = IF lock = t THEN Free ELSE lock
    /\ th' = [th EXCEPT ![t] = [op |-> "none", pc |-> "idle", exit |-> th[t].exit,
                                done |-> th[t].done + 1]]
    /\ UNCHANGED <<trackVars, catalog, rq, lat, pdf, ld, sr>>

NextLock ==
    \E t \in Threads : TCall(t) \/ TAcquire(t) \/ TBody(t) \/ TLog(t) \/ TReturn(t)

SpecLock == Init /\ [][NextLock]_vars

\* every thread that can take a step of a call it has made takes it
SpecLockFair ==
    /\ Init /\ [][NextLock]_vars
    /\ \A t \in Threads : WF_vars(TAcquire(t) \/ TBody(t) \/ TLog(t) \/ TReturn(t))

\* thread t waits for the lock
Blocked(t) == th[t].pc = "acquire" /\ lock # Free

C29_DeadlockFree ==
    /\ [](\A t \in Threads :
            lock = t <=> (UsesLock(th[t].op) /\ th[t].pc \in {"body", "log", "exit"}))
    /\ [][\A t \in Threads :
            (th[t].pc = "log" /\ th'[t].pc # "log") => lock' = lock]_vars
    /\ \A t \in Threads : (th[t].pc # "idle") ~> (th[t].pc = "idle")

\* C29 witness: a thread has made all its calls, the last one left by its
\* except branch, and the lock has been released and taken by the other
\* thread, which is inside a locking method
C29_Witness ==
    \E t, u \in Threads :
        /\ th[t].pc = "idle" /\ th[t].exit = "exception" /\ th[t].done = MaxLockCalls
        /\ th[u].pc = "body" /\ UsesLock(th[u].op) /\ lock = u

(***************************************************************************)
(* EmailSender._send_with_retry: the loop over range(max_retries).  One    *)
(* iteration opens the connection and logs in, hands the message to the    *)
(* server, and leaves the with block, which sends QUIT; an exception of    *)
(* any of these steps is caught by the except branches of the iteration.   *)
(***************************************************************************)

\* default of the parameter max_retries
max_retries == 3

\* what the steps of one iteration can raise
Raised == {"SMTPAuthenticationError", "SMTPException", "Exception"}

\* _send_with_retry(recipient, message) is called, on a sender of port 465
\* (SMTP_SSL) or of another port (SMTP and STARTTLS)
SendCall ==
    /\ sr.pc \in {"idle", "done"}
    /\ \E ssl \in BOOLEAN : sr' = [NoSend EXCEPT !.pc = "login", !.ssl = ssl]
    /\ UNCHANGED <<trackVars, catalog, rq, lat, pdf, ld, lock, th>>

\* the except branches: an authentication error returns False, any other
\* exception sleeps and goes to the next iteration, if there is one
Except(s, e) ==
    LET h == [s EXCEPT !.hist = Append(@, e)]
    IN  IF e = "SMTPAuthenticationError"
        THEN [h EXCEPT !.pc = "done", !.result = "False"]
        ELSE IF s.attempt < max_retries - 1
             THEN [h EXCEPT !.pc = "login", !.attempt = @ + 1]
             ELSE [h EXCEPT !.pc = "done", !.attempt = @ + 1, !.result = "False"]

\* SMTP_SSL(...) / SMTP(...), starttls, login
SendLogin ==
    /\ sr.pc = "login"
    /\ \/ sr' = [sr EXCEPT !.pc = "send"]
       \/ \E e \in Raised : sr' = Except(sr, e)
    /\ UNCHANGED <<trackVars, catalog, rq, lat, pdf, ld, lock, th>>

\* server.send_message(message): the server takes the message, or the
\* call raises; _save_to_sent_folder follows and raises nothing
SendMessage ==
    /\ sr.pc = "send"
    /\ \/ sr' = [sr EXCEPT !.pc = "quit", !.sends = @ + 1]
       \/ \E e \in Raised \ {"SMTPAuthenticationError"} : sr' = Except(sr, e)
    /\ UNCHANGED <<trackVars, catalog, rq, lat, pdf, ld, lock, th>>

\* return True leaves the with block: the connection's __exit__ sends QUIT
\* and raises SMTPResponseException when the answer is not 221
SendQuit ==
    /\ sr.pc = "quit"
    /\ \/ sr' = [sr EXCEPT !.pc = "done", !.result = "True", !.hist = Append(@, "sent")]
       \/ sr' = Except(sr, "SMTPException")
    /\ UNCHANGED <<trackVars, catalog, rq, lat, pdf, ld, lock, th>>

NextSend == SendCall \/ SendLogin \/ SendMessage \/ SendQuit

\* every step of a call that has been made is taken
SpecSendFair == Init /\ [][NextSend]_vars /\ WF_vars(SendLogin \/ SendMessage \/ SendQuit)

\* C27: a _send_with_retry call makes at most max_retries attempts, returns
\* True at the first attempt that handed the message over, returns False
\* at once on an authentication error and after the last failed attempt,
\* hands the message over at most once, and returns.
C27_BoundedRetry ==
    /\ [](/\ Len(sr.hist) <= max_retries
          /\ sr.sends <= 1
          /\ (sr.sends = 1 /\ sr.pc = "done") => sr.result = "True"
          /\ sr.result = "True" => sr.hist[Len(sr.hist)] = "sent"
          /\ (sr.hist # <<>> /\ sr.hist[Len(sr.hist)] = "SMTPAuthenticationError")
                => sr.pc = "done" /\ sr.result = "False"
          /\ (sr.pc = "done" /\ sr.result = "False")
                => \/ sr.hist[Len(sr.hist)] = "SMTPAuthenticationError"
                   \/ Len(sr.hist) = max_retries)
    /\ (sr.pc \notin {"idle", "done"}) ~> (sr.pc = "done")

\* the keys of a line item as the extractor delivers it
RawKeys == {"name", "sku", "quantity", "price"}

\* the keys _enrich_with_prices sets
AddedKeys == {"list_price", "needs_verification"}

\* C23: after process_order every enriched product has the name, quantity
\* and price of the product it was made from, and its SKU when that was
\* not empty; it has no other keys than the raw ones and the ones
\* enrichment adds; and the products passed in are as they were.
C23_RawFieldsKept ==
    /\ lat.given = lat.products
    /\ Len(lat.enriched) = Len(lat.products)
    /\ \A i \in DOMAIN lat.products :
         /\ lat.enriched[i].name = lat.products[i].name
         /\ lat.enriched[i].quantity = lat.products[i].quantity
         /\ lat.enriched[i].price = lat.products[i].price
         /\ lat.products[i].sku # <<>> => lat.enriched[i].sku = lat.products[i].sku
         /\ DOMAIN lat.products[i] = RawKeys
         /\ DOMAIN lat.enriched[i] = RawKeys \cup AddedKeys

\* C23 witness: an order with a product that came without SKU and was found
\* by its name (the SKU is filled in) and one found with its own SKU
C23_Witness ==
    /\ Len(lat.products) = 2
    /\ lat.products[1].sku = <<>> /\ lat.enriched[1].sku # <<>>
    /\ ~lat.enriched[1].needs_verification
    /\ lat.enriched[1].list_price # lat.enriched[1].price
    /\ lat.products[2].sku # <<>> /\ ~lat.enriched[2].needs_verification

\* C24: when a mark_order_as_sent call on a key has returned True,
\* get_order_details of the key gives the recipient, the order details and
\* the decoded product list that were passed in, and get_order_history
\* has, as its latest entry, the sent event; and every duplicate check
\* that read the table has added its entry to the history.
C24_RoundTrip ==
    [][\A k \in Keys :
          /\ (calls' = calls + 1 /\ ret'.op = "mark_order_as_sent" /\ ret'.key = k /\ ret'.ok)
               => /\ get_order_details(k)' # NoRow
                  /\ Decoded(get_order_details(k)').sent_to = Recipient(k)
                  /\ Decoded(get_order_details(k)').snap = ret'.snap
                  /\ Decoded(get_order_details(k)').tileware_products
                        = TilewareProducts(ret'.snap)
                  /\ Len(get_order_history(k)') = Len(get_order_history(k)) + 1
                  /\ Head(get_order_history(k)').action = "sent"
          /\ (calls' = calls + 1 /\ ret'.op = "has_order_been_sent" /\ ret'.key = k
              /\ ~ret'.fault)
               => /\ Len(get_order_history(k)') = Len(get_order_history(k)) + 1
                  /\ Head(get_order_history(k)').action = "duplicate_check"]_vars

\* one orchestrator instance running alone with all its collaborators
\* succeeding, on a store that also receives save_failed_order calls
NextRetry ==
    \/ CallSaveFailed
    \/ Fetch("p1", {TRUE}, MaxEmails)
    \/ Begin("p1", {TRUE})
    \/ Check("p1", {TRUE})
    \/ Send("p1", {TRUE})
    \/ Mark("p1", {TRUE})
    \/ Finish("p1")

SpecRetry == Init /\ [][NextRetry]_vars

\* C25: the orchestrator skips an order as already sent only when the
\* record the duplicate check found has status sent, and with its
\* collaborators succeeding every order it has handled has a sent record.
C25_FailedRetried ==
    \A p \in Procs :
        /\ outcome[p] = "duplicate" => existing[p].status = "sent"
        /\ (outcome[p] \in {"duplicate", "sent"} /\ pc[p] \in {"loop", "done"})
              => SentRows(okey[p]) # {}

\* C28: the duplicate check lets an order through to dispatch only when
\* the table holds no record of its key, and no e-mail is dispatched for a
\* key that has a sent record.
C28_NoDispatchOnFailedCheck ==
    /\ [][\A p \in Procs :
            (pc[p] = "check" /\ pc'[p] = "send") => RowsOf(okey[p]) = {}]_vars
    /\ [][\A k \in Keys :
            delivered'[k] > delivered[k] => SentRows(k) = {}]_vars

\* C26: the TileWare handler works under the key TW-<n> and the Laticrete
\* handler under LAT-<n> of the e-mail's order number; a step changes the
\* records, the log or the dispatch count only of the key of a handler
\* that is running; and an order is skipped as duplicate only on a record
\* of its own key.
C26_KeysIndependent ==
    /\ [](\A p \in Procs :
            pc[p] \in {"check", "send", "mark"}
               => okey[p] = OrderKey(IF part[p] = 2 \/ cur[p].ptype = "laticrete"
                                     THEN "LAT" ELSE "TW", cur[p].num))
    /\ [][\A k \in Keys :
            (RowsOf(k)' # RowsOf(k) \/ log'[k] # log[k] \/ delivered'[k] # delivered[k])
               => \E p \in Procs : okey[p] = k /\ pc[p] \in {"check", "send", "mark"}]_vars
    /\ [](\A p \in Procs :
            outcome[p] = "duplicate" => existing[p].order_id = okey[p])

\* C26 witness: the TileWare part of a 'both' e-mail has been sent and
\* recorded, and its Laticrete part has passed the duplicate check
C26_Witness ==
    /\ part["p1"] = 2 /\ cur["p1"].ptype = "both" /\ pc["p1"] = "send"
    /\ okey["p1"] = OrderKey("LAT", cur["p1"].num)
    /\ SentRows(OrderKey("TW", cur["p1"].num)) # {}
    /\ RowsOf(okey["p1"]) = {}

\* C30: a process_order call dispatches the Laticrete e-mail only when the
\* renderer has written the PDF; when every strategy failed it returns
\* False and nothing is dispatched; and a sent record of a LAT key is
\* written only for the order whose process_order call returned True.
C30_RenderBeforeSend ==
    /\ [](lat.key # NoKey => (lat.ok => lat.renderOk))
    /\ [][lat' # lat =>
            /\ delivered' # delivered => lat'.renderOk /\ lat'.ok
            /\ ~lat'.renderOk => (~lat'.ok /\ delivered' = delivered
                                  /\ \A p \in Procs : pc'[p] # "mark")]_vars
    /\ [][\A k \in Keys :
            (k[1] = "LAT" /\ SentRows(k)' # SentRows(k))
               => lat.key = k /\ lat.ok /\ lat.renderOk]_vars

\* C30 witness: the renderer failed in every strategy on an order whose
\* e-mail would have gone out; nothing was dispatched or recorded and the
\* order ended as failed
C30_Witness ==
    /\ lat.key # NoKey /\ ~lat.renderOk /\ lat.mailOk /\ ~lat.ok
    /\ okey["p1"] = lat.key /\ outcome["p1"] = "send_failed"
    /\ delivered[lat.key] = 0 /\ RowsOf(lat.key) = {}

====
